---- MODULE Spec2Model ----
(***************************************************************************)
(* Model of pgbench_python.py: the concurrent benchmark runner.            *)
(*                                                                         *)
(* The program's state is the job description and command line (querydata, *)
(* args, driver), the runner coroutine's position and locals (pc, i,       *)
(* conns, admin_conn, results, data, the exception in flight), the worker  *)
(* invocations of the phase in progress (workers), the monotonic clock     *)
(* (now) and what the outside world has seen (the statements issued on the *)
(* administrative connection, the report printed).                         *)
(*                                                                         *)
(* The clock counts whole seconds.  A request takes one second or more;    *)
(* what a worker does between two requests takes no time.  The database,   *)
(* the drivers and the scheduler are the environment: a connect, execute   *)
(* or close may return or raise, and the row counts they return are drawn  *)
(* from small sets.                                                        *)
(***************************************************************************)
EXTENDS Integers, Sequences, FiniteSets, Bags, TLC

\* Bounds of the model.
\* args.concurrency ranges over 1..MaxConcurrency
MaxConcurrency == 2
\* args.duration ranges over 1..MaxDuration
MaxDuration == 2

\* The other inputs: args.warmup_time, args.timeout, the "count" of a COPY
\* job's argument description, the rows one execute returns.
WarmupTimes == {0, 1}
Timeouts == {1, 3}
Counts == {2}
RowsReturned == {1}

VARIABLES
    driver,         \* args.driver
    args,           \* [concurrency, duration, timeout, warmup_time]
    querydata,      \* [query, count, setup, teardown]
    pc,             \* position of __main__ / runner
    i,              \* loop index of the connect loop and of the close loop
    conns,          \* sequence of connection states, "open" or "closed"
    admin_conn,     \* "unbound", "open"
    exc,            \* exception propagating through runner, "none" if none
    phase,          \* "none", "warmup", "measured": the _do_run in progress
    start,          \* _do_run's start
    workers,        \* sequence of worker frames of the phase in progress
    results,        \* runner's results (measured pass), <<>> until assigned
    data,           \* runner's data dict, <<>> until assigned
    duration,       \* runner's duration (end - start of the measured pass)
    rowcount,       \* runner's rowcount, -1 until fetched
    now,            \* time.monotonic()
    admin_log,      \* statements issued on the administrative connection
    stdout          \* reports printed by print(json.dumps(data))

vars == <<driver, args, querydata, pc, i, conns, admin_conn, exc, phase, start,
          workers, results, data, duration, rowcount, now, admin_log, stdout>>

--------------------------------------------------------------------------
\* Job descriptions and drivers.

\* A query text as its sequence of tokens.
Queries ==
    { <<"SELECT", "1">>,
      <<"COPY", "t", "(", "a", ",", "b", ")">>,
      <<"COPY", "t">> }

Words == {"t", "a", "b", "1"}

\* "aiopg-tuples" selects what "aiopg" selects, but for the execute function.
Drivers == {"aiopg", "asyncpg", "psycopg", "postgresql"}

\* query.startswith('COPY ')
startswith_COPY(query) == Len(query) > 1 /\ query[1] = "COPY"

\* The column list of the COPY grammar: \w+ (, \w+)* \)  from position k on.
RECURSIVE MatchColumns(_, _)
MatchColumns(query, k) ==
    IF k + 1 > Len(query) \/ query[k] \notin Words THEN FALSE
    ELSE IF query[k + 1] = ")" THEN TRUE
    ELSE IF query[k + 1] = "," THEN MatchColumns(query, k + 2)
    ELSE FALSE

\* re.match('COPY (\w+)\s*\(\s*((?:\w+)(?:,\s*\w+)*)\s*\)', query)
copy_match(query) ==
    /\ Len(query) >= 3
    /\ query[1] = "COPY"
    /\ query[2] \in Words
    /\ query[3] = "("
    /\ MatchColumns(query, 4)

\* The driver table of __main__: what each driver name selects.
is_async_of(d, query) ==
    CASE d = "aiopg" -> ~startswith_COPY(query)
      [] d = "asyncpg" -> TRUE
      [] d \in {"psycopg", "postgresql"} -> FALSE

copy_executor_of(d, query) ==
    CASE d = "aiopg" ->
            IF startswith_COPY(query) THEN "psycopg_copy" ELSE "None"
      [] d = "asyncpg" -> "asyncpg_copy"
      [] d = "psycopg" -> "psycopg_copy"
      [] d = "postgresql" -> "None"

is_async == is_async_of(driver, querydata.query)
copy_executor == copy_executor_of(driver, querydata.query)
is_copy == startswith_COPY(querydata.query)

\* timeout = args.timeout * 1000
timeout == args.timeout * 1000

\* The count of the argument description ignored.
rows_per_copy_one == Len(<<querydata.query>>)

\* len(query_args[0]) after [query_info['row']] * query_info['count']
rows_per_copy == querydata.count

--------------------------------------------------------------------------
\* worker / sync_worker: the sample loop.

\* float('inf'): above every req_time the bounded clock can produce.
Inf == 1000000000

\* The frame of one worker call: its locals and where it stands.
\*   "loop"     at the while test
\*   "await"    inside executor(*eargs), the request in flight
\*   "returned" the call returned its result tuple
\*   "raised"   the call raised f.exc
\*   conn       the index in conns of the connection in its eargs
new_worker(c, t) ==
    [pc |-> "loop", conn |-> c, duration |-> t, req_start |-> 0,
     queries |-> 0, rows |-> 0, latency_stats |-> EmptyBag,
     min_latency |-> Inf, max_latency |-> 0, exc |-> "none"]

\* The histogram sized with the wrong factor.
stats_len_wide == timeout * 1000

\* len(latency_stats) of np.zeros((timeout * 100,))
stats_len == timeout * 100

\* round((time.monotonic() - req_start) * 1000 * 100), the clock in whole seconds
req_time_of(req_start) == (now - req_start) * 1000 * 100

\* latency_stats[req_time] += 1: numpy raises IndexError past the last bucket.
index_ok(req_time) == req_time < stats_len

\* while time.monotonic() - start < duration: req_start = time.monotonic()
loop_test(f) ==
    IF now - start < f.duration
    THEN [f EXCEPT !.pc = "await", !.req_start = now]
    ELSE [f EXCEPT !.pc = "returned"]

\* An iteration that counts its sample in the histogram but not in queries.
sample_not_counted(f, r) ==
    LET req_time == req_time_of(f.req_start)
        g == [f EXCEPT !.rows = f.rows + r,
                       !.max_latency = IF req_time > f.max_latency
                                       THEN req_time ELSE f.max_latency,
                       !.min_latency = IF req_time < f.min_latency
                                       THEN req_time ELSE f.min_latency]
    IN  IF index_ok(req_time)
        THEN [g EXCEPT !.latency_stats = f.latency_stats (+) SetToBag({req_time}),
                       !.pc = "loop"]
        ELSE [g EXCEPT !.pc = "raised", !.exc = "IndexError"]

\* The rest of one iteration, executor having returned r rows.
sample(f, r) ==
    LET req_time == req_time_of(f.req_start)
        g == [f EXCEPT !.rows = f.rows + r,
                       !.max_latency = IF req_time > f.max_latency
                                       THEN req_time ELSE f.max_latency,
                       !.min_latency = IF req_time < f.min_latency
                                       THEN req_time ELSE f.min_latency]
    IN  IF index_ok(req_time)
        THEN [g EXCEPT !.latency_stats = f.latency_stats (+) SetToBag({req_time}),
                       !.queries = f.queries + 1,
                       !.pc = "loop"]
        ELSE [g EXCEPT !.pc = "raised", !.exc = "IndexError"]

\* executor(*eargs) raised.
execute_raised(f) == [f EXCEPT !.pc = "raised", !.exc = "ExecuteError"]

\* return queries, rows, latency_stats, min_latency, max_latency
result_of(f) ==
    [queries |-> f.queries, rows |-> f.rows, latency_stats |-> f.latency_stats,
     min_latency |-> f.min_latency, max_latency |-> f.max_latency]

Live(f) == f.pc \in {"loop", "await"}

\* What executor(*eargs) returns: the rows copied, len(query_args[0]), for
\* a COPY job, the rows fetched otherwise.
executor_returns == IF is_copy THEN {rows_per_copy} ELSE RowsReturned

\* One step of asyncio's loop on the task of worker k, from one suspension
\* to the next: the task is started and runs to its first await, or it is
\* resumed with the rows executor returned and runs to its next await or to
\* its return, or it is resumed with the exception executor raised.  The
\* loop runs tasks while runner is suspended in an await of its own.
\*
\* async def worker(executor, eargs, start, duration, timeout)
worker(k) ==
    /\ is_async
    /\ pc \in {"join", "close", "teardown"}
    /\ k \in 1..Len(workers)
    /\ \/ /\ workers[k].pc = "loop"
          /\ workers' = [workers EXCEPT ![k] = loop_test(@)]
       \/ /\ workers[k].pc = "await"
          /\ now > workers[k].req_start
          /\ \E r \in executor_returns :
                workers' = [workers EXCEPT ![k] =
                               IF sample(@, r).pc = "loop"
                               THEN loop_test(sample(@, r)) ELSE sample(@, r)]
       \/ /\ workers[k].pc = "await"
          /\ workers' = [workers EXCEPT ![k] = execute_raised(@)]
    /\ UNCHANGED <<driver, args, querydata, pc, i, conns, admin_conn, exc, phase,
                   start, results, data, duration, rowcount, now, admin_log, stdout>>

\* One step of the pool thread that runs sync_worker for worker k: the
\* while test, or the rest of an iteration once executor has returned or
\* raised.  The threads run while runner is blocked in futures.wait.
\*
\* def sync_worker(executor, eargs, start, duration, timeout)
sync_worker(k) ==
    /\ ~is_async
    /\ pc = "join"
    /\ k \in 1..Len(workers)
    /\ \/ /\ workers[k].pc = "loop"
          /\ workers' = [workers EXCEPT ![k] = loop_test(@)]
       \/ /\ workers[k].pc = "await"
          /\ now > workers[k].req_start
          /\ \E r \in executor_returns :
                workers' = [workers EXCEPT ![k] = sample(@, r)]
       \/ /\ workers[k].pc = "await"
          /\ workers' = [workers EXCEPT ![k] = execute_raised(@)]
    /\ UNCHANGED <<driver, args, querydata, pc, i, conns, admin_conn, exc, phase,
                   start, results, data, duration, rowcount, now, admin_log, stdout>>

\* time.monotonic() advances while runner waits for the workers and
\* requests are in flight, up to the deadline of the workers; what runner
\* does after the join takes no time.
Tick ==
    /\ pc = "join"
    /\ \E k \in 1..Len(workers) : workers[k].pc = "await"
    /\ \A k \in 1..Len(workers) :
          /\ workers[k].pc # "loop"
          /\ now - start < workers[k].duration
    /\ now' = now + 1
    /\ UNCHANGED <<driver, args, querydata, pc, i, conns, admin_conn, exc, phase,
                   start, workers, results, data, duration, rowcount, admin_log, stdout>>

--------------------------------------------------------------------------
\* __main__ and runner.

Range(s) == {s[k] : k \in 1..Len(s)}

\* An exception raised before runner's try statement, or in its outer
\* finally clause, leaves runner at once.
Leave(e) == pc' = "exit" /\ exc' = e

\* main without the setup/teardown check.
main_no_check ==
    /\ pc = "main"
    /\ pc' = "runner"
    /\ UNCHANGED <<driver, args, querydata, i, conns, admin_conn, exc, phase,
                   start, workers, results, data, duration, rowcount, now,
                   admin_log, stdout>>

\* if setup and not teardown: die(...)
main ==
    /\ pc = "main"
    /\ IF querydata.setup /\ ~querydata.teardown
       THEN Leave("SystemExit")
       ELSE pc' = "runner" /\ exc' = exc
    /\ UNCHANGED <<driver, args, querydata, i, conns, admin_conn, phase, start,
                   workers, results, data, duration, rowcount, now, admin_log, stdout>>

\* runner, up to conns = []
runner_copy ==
    /\ pc = "runner"
    /\ IF is_copy /\ copy_executor = "None" THEN Leave("RuntimeError: COPY is not supported")
       ELSE IF is_copy /\ ~copy_match(querydata.query)
       THEN Leave("RuntimeError: could not parse COPY query")
       ELSE pc' = "connect" /\ exc' = exc
    /\ i' = 0
    /\ UNCHANGED <<driver, args, querydata, conns, admin_conn, phase, start,
                   workers, results, data, duration, rowcount, now, admin_log, stdout>>

\* Where runner goes once the connect loop is over.
after_connect == IF querydata.setup THEN "setup" ELSE "try"

\* for i in range(concurrency): conn = connector(args); conns.append(conn)
runner_connect ==
    /\ pc = "connect"
    /\ \/ /\ conns' = Append(conns, "open")
          /\ i' = i + 1
          /\ pc' = IF i + 1 = args.concurrency THEN after_connect ELSE "connect"
          /\ exc' = exc
       \/ /\ Leave("ConnectError")
          /\ UNCHANGED <<conns, i>>
    /\ UNCHANGED <<driver, args, querydata, admin_conn, phase, start, workers,
                   results, data, duration, rowcount, now, admin_log, stdout>>

\* if setup: admin_conn = await asyncpg.connect(...)
runner_admin_connect ==
    /\ pc = "setup"
    /\ \/ admin_conn' = "open" /\ pc' = "setup_execute" /\ exc' = exc
       \/ Leave("ConnectError") /\ UNCHANGED admin_conn
    /\ UNCHANGED <<driver, args, querydata, i, conns, phase, start, workers,
                   results, data, duration, rowcount, now, admin_log, stdout>>

\* await admin_conn.execute(setup)
runner_setup ==
    /\ pc = "setup_execute"
    /\ admin_log' = Append(admin_log, "setup")
    /\ \/ pc' = "try" /\ exc' = exc
       \/ Leave("SetupError")
    /\ UNCHANGED <<driver, args, querydata, i, conns, admin_conn, phase, start,
                   workers, results, data, duration, rowcount, now, stdout>>

\* The duration the workers of a _do_run(run_duration) are given.
worker_duration(run_duration) ==
    IF is_async THEN args.duration ELSE run_duration

\* Every worker given the first connection.
eargs_conn_first(k) == 1

\* The connection in the eargs of the k-th worker: conns[i].
eargs_conn(k) == k

\* _do_run up to the join: start = time.monotonic(), the workers launched.
do_run(run_duration, ph) ==
    /\ start' = now
    /\ phase' = ph
    /\ workers' = [k \in 1..args.concurrency |->
                      new_worker(eargs_conn(k), worker_duration(run_duration))]
    /\ pc' = "join"

\* if args.warmup_time: await _do_run(args.warmup_time)
runner_warmup ==
    /\ pc = "try"
    /\ args.warmup_time # 0
    /\ do_run(args.warmup_time, "warmup")
    /\ UNCHANGED <<driver, args, querydata, i, conns, admin_conn, exc, results,
                   data, duration, rowcount, now, admin_log, stdout>>

\* results, duration = await _do_run(args.duration)
runner_measured ==
    /\ \/ pc = "try" /\ args.warmup_time = 0
       \/ pc = "measure"
    /\ do_run(args.duration, "measured")
    /\ UNCHANGED <<driver, args, querydata, i, conns, admin_conn, exc, results,
                   data, duration, rowcount, now, admin_log, stdout>>

\* The sequences that list every element of 1..n once.
Perms(n) == {p \in [1..n -> 1..n] : \A a, b \in 1..n : a # b => p[a] # p[b]}

\* The close loop left out when the measured pass succeeded.
do_run_return_no_close(res) ==
    /\ pc' = IF phase = "warmup" THEN "measure" ELSE "aggregate"
    /\ results' = IF phase = "warmup" THEN results ELSE res
    /\ duration' = IF phase = "warmup" THEN duration ELSE now - start
    /\ i' = 0
    /\ workers' = <<>>
    /\ exc' = exc

\* _do_run returned: the warmup's results are dropped, the measured
\* pass's are bound to results.
do_run_return(res) ==
    /\ pc' = IF phase = "warmup" THEN "measure" ELSE "close"
    /\ results' = IF phase = "warmup" THEN results ELSE res
    /\ duration' = IF phase = "warmup" THEN duration ELSE now - start
    /\ i' = 0
    /\ workers' = <<>>
    /\ exc' = exc

\* The close loop in no finally clause: an exception passes it by.
do_run_raise_no_finally(e) ==
    /\ pc' = "teardown"
    /\ exc' = e
    /\ i' = 0
    /\ results' = results
    /\ duration' = duration

\* _do_run raised e inside the inner try: on to its finally clause.
do_run_raise(e) ==
    /\ pc' = "close"
    /\ exc' = e
    /\ i' = 0
    /\ results' = results
    /\ duration' = duration

\* results = await asyncio.gather(*tasks): the first exception of a task
\* is raised at once, the other tasks keep running; otherwise the results
\* of all tasks, in task order.  The loop runs its callbacks in the order
\* they were scheduled: every task is started before runner is resumed.
gather ==
    /\ pc = "join" /\ is_async
    /\ \A k \in 1..Len(workers) : workers[k].pc # "loop"
    /\ \/ /\ \A k \in 1..Len(workers) : workers[k].pc = "returned"
          /\ do_run_return([k \in 1..Len(workers) |-> result_of(workers[k])])
       \/ /\ \E k \in 1..Len(workers) :
                /\ workers[k].pc = "raised"
                /\ do_run_raise(workers[k].exc)
          /\ UNCHANGED workers
    /\ UNCHANGED <<driver, args, querydata, conns, admin_conn, phase, start,
                   data, rowcount, now, admin_log, stdout>>

\* results = [fut.result() for fut in futures.wait(tasks).done]: waits for
\* every future, then takes the results in the order of the set.
futures_wait ==
    /\ pc = "join" /\ ~is_async
    /\ \A k \in 1..Len(workers) : ~Live(workers[k])
    /\ \/ /\ \A k \in 1..Len(workers) : workers[k].pc = "returned"
          /\ \E p \in Perms(Len(workers)) :
                do_run_return([k \in 1..Len(workers) |-> result_of(workers[p[k]])])
       \/ /\ \E k \in 1..Len(workers) :
                /\ workers[k].pc = "raised"
                /\ do_run_raise(workers[k].exc)
          /\ workers' = <<>>
    /\ UNCHANGED <<driver, args, querydata, conns, admin_conn, phase, start,
                   data, rowcount, now, admin_log, stdout>>

\* The teardown in no finally clause: an exception passes it by.
after_close_no_finally == IF exc = "none" THEN "aggregate" ELSE "exit"

\* Where runner goes once the inner finally clause is over.
after_close == IF exc = "none" THEN "aggregate" ELSE "teardown"

\* finally: for conn in conns: conn.close()
runner_close ==
    /\ pc = "close"
    /\ \/ /\ conns' = [conns EXCEPT ![i + 1] = "closed"]
          /\ i' = i + 1
          /\ pc' = IF i + 1 = Len(conns) THEN after_close ELSE "close"
          /\ exc' = exc
       \/ /\ \E c \in {"open", "closed"} : conns' = [conns EXCEPT ![i + 1] = c]
          /\ pc' = "teardown"
          /\ exc' = "CloseError"
          /\ i' = i
    /\ UNCHANGED <<driver, args, querydata, admin_conn, phase, start, workers,
                   results, data, duration, rowcount, now, admin_log, stdout>>

\* The loop over results: all results from the k-th on merged into acc.
RECURSIVE merge_from(_, _, _)
merge_from(res, k, acc) ==
    IF k > Len(res) THEN acc
    ELSE LET t == res[k] IN
         merge_from(res, k + 1,
            [queries |-> acc.queries + t.queries,
             rows |-> acc.rows + t.rows,
             latency_stats |-> IF k = 1 THEN t.latency_stats
                               ELSE acc.latency_stats (+) t.latency_stats,
             max_latency |-> IF t.max_latency > acc.max_latency
                             THEN t.max_latency ELSE acc.max_latency,
             min_latency |-> IF t.min_latency < acc.min_latency
                             THEN t.min_latency ELSE acc.min_latency])

\* max_latency assigned from each result without the comparison.
merge_last_max(res) ==
    [merge_from(res, 1, [queries |-> 0, rows |-> 0, latency_stats |-> EmptyBag,
                         max_latency |-> 0, min_latency |-> Inf])
     EXCEPT !.max_latency = IF res = <<>> THEN 0 ELSE res[Len(res)].max_latency]

\* min_latency = float('inf') ... for result in results: ...
merge(res) ==
    merge_from(res, 1, [queries |-> 0, rows |-> 0, latency_stats |-> EmptyBag,
                        max_latency |-> 0, min_latency |-> Inf])

\* The report with the queries counter in the place of rows.
report_rows_from_queries(m) ==
    [queries |-> m.queries, rows |-> m.queries, duration |-> duration,
     min_latency |-> m.min_latency, max_latency |-> m.max_latency,
     latency_stats |-> m.latency_stats]

\* data = {'queries': queries, ...}
report(m) ==
    [queries |-> m.queries, rows |-> m.rows, duration |-> duration,
     min_latency |-> m.min_latency, max_latency |-> m.max_latency,
     latency_stats |-> m.latency_stats]

\* The row counts SELECT count(*) may return, around the expected one.
RowCounts(expected) == 0..(expected + 1)

\* The statements of the outer try after the inner try statement, for a
\* job that is no COPY: the merge, then data.
runner_aggregate ==
    /\ pc = "aggregate"
    /\ ~is_copy
    /\ data' = report(merge(results))
    /\ pc' = "teardown"
    /\ UNCHANGED <<driver, args, querydata, i, conns, admin_conn, exc, phase,
                   start, workers, results, duration, rowcount, now, admin_log,
                   stdout>>

\* The same for a COPY job: the merge, rowcount = await admin_conn.fetchval(...),
\* if rowcount < len(query_args[0]) * queries: raise, then data.
runner_copy_check ==
    /\ pc = "aggregate"
    /\ is_copy
    /\ pc' = "teardown"
    /\ IF admin_conn = "unbound"
       THEN /\ exc' = "UnboundLocalError"
            /\ UNCHANGED <<rowcount, data, admin_log>>
       ELSE /\ admin_log' = Append(admin_log, "fetchval")
            /\ \/ /\ exc' = "FetchError"
                  /\ UNCHANGED <<rowcount, data>>
               \/ \E n \in RowCounts(rows_per_copy * merge(results).queries) :
                     /\ rowcount' = n
                     /\ IF n < rows_per_copy * merge(results).queries
                        THEN /\ exc' = "RuntimeError: COPY did not insert the expected number of rows"
                             /\ data' = data
                        ELSE /\ exc' = exc
                             /\ data' = report(merge(results))
    /\ UNCHANGED <<driver, args, querydata, i, conns, admin_conn, phase, start,
                   workers, results, duration, now, stdout>>

\* The report printed whatever happened before.
after_teardown_always_print == "print"

\* Where runner goes once the outer finally clause is over.
after_teardown == IF exc = "none" THEN "print" ELSE "exit"

\* finally: if teardown: await admin_conn.execute(teardown)
runner_teardown ==
    /\ pc = "teardown"
    /\ IF ~querydata.teardown
       THEN pc' = after_teardown /\ UNCHANGED <<exc, admin_log>>
       ELSE IF admin_conn = "unbound"
       THEN Leave("UnboundLocalError") /\ UNCHANGED admin_log
       ELSE /\ admin_log' = Append(admin_log, "teardown")
            /\ \/ pc' = after_teardown /\ exc' = exc
               \/ Leave("TeardownError")
    /\ UNCHANGED <<driver, args, querydata, i, conns, admin_conn, phase, start,
                   workers, results, data, duration, rowcount, now, stdout>>

\* print(json.dumps(data))
runner_print ==
    /\ pc = "print"
    /\ stdout' = Append(stdout, data)
    /\ pc' = "exit"
    /\ UNCHANGED <<driver, args, querydata, i, conns, admin_conn, exc, phase,
                   start, workers, results, data, duration, rowcount, now,
                   admin_log>>

--------------------------------------------------------------------------
\* The command lines and job descriptions of the model.
Args ==
    [concurrency : 1..MaxConcurrency, duration : 1..MaxDuration,
     timeout : Timeouts, warmup_time : WarmupTimes]

QueryData ==
    [query : Queries, count : Counts, setup : BOOLEAN, teardown : BOOLEAN]

Init ==
    /\ driver \in Drivers
    /\ args \in Args
    /\ querydata \in QueryData
    /\ pc = "main"
    /\ i = 0
    /\ conns = <<>>
    /\ admin_conn = "unbound"
    /\ exc = "none"
    /\ phase = "none"
    /\ start = 0
    /\ workers = <<>>
    /\ results = <<>>
    /\ data = <<>>
    /\ duration = 0
    /\ rowcount = -1
    /\ now = 0
    /\ admin_log = <<>>
    /\ stdout = <<>>

Next ==
    \/ main
    \/ runner_copy
    \/ runner_connect
    \/ runner_admin_connect
    \/ runner_setup
    \/ runner_warmup
    \/ runner_measured
    \/ \E k \in 1..MaxConcurrency : worker(k)
    \/ \E k \in 1..MaxConcurrency : sync_worker(k)
    \/ Tick
    \/ gather
    \/ futures_wait
    \/ runner_close
    \/ runner_aggregate
    \/ runner_copy_check
    \/ runner_teardown
    \/ runner_print

Spec == Init /\ [][Next]_vars

--------------------------------------------------------------------------
\* Properties.

Count(log, x) == Cardinality({k \in 1..Len(log) : log[k] = x})

AllClosed == \A k \in 1..Len(conns) : conns[k] = "closed"

\* a is issued before b on the administrative connection.
Before(a, b) ==
    \E m, n \in 1..Len(admin_log) :
        m < n /\ admin_log[m] = a /\ admin_log[n] = b

\* The setup statement was executed and runner went on into its try statement.
SetupRan == "setup" \in Range(admin_log) /\ exc # "SetupError"

\* C1: in a run whose setup statement was executed, the teardown statement
\* is issued on the administrative connection exactly once before runner is
\* left, whichever later step failed.
C1_TeardownExactlyOnce ==
    SetupRan =>
        /\ Count(admin_log, "teardown") <= 1
        /\ pc = "exit" => Count(admin_log, "teardown") = 1

\* A worker's execute raised in the measured pass of a run with a setup
\* statement, and runner was left with the teardown issued.
C1_Witness ==
    /\ pc = "exit"
    /\ SetupRan
    /\ phase = "measured"
    /\ exc = "ExecuteError"
    /\ Count(admin_log, "teardown") = 1

\* C2: runner goes on to connection release, aggregation or teardown only
\* when every worker of the phase has finished.
C2_BarrierJoin ==
    pc \in {"close", "aggregate", "teardown", "print", "exit"} =>
        \A k \in 1..Len(workers) : ~Live(workers[k])

\* C3: when runner returns, or propagates an error of the warmup or
\* measured pass, no worker connection is still open.
C3_ConnectionsClosed ==
    (pc = "exit" /\ exc \in {"none", "ExecuteError", "IndexError"}) => AllClosed

\* A worker's execute raised with two connections open, and runner was left
\* with both closed.
C3_Witness ==
    /\ pc = "exit"
    /\ exc = "ExecuteError"
    /\ Len(conns) = 2
    /\ AllClosed

\* C4: when a connect of the connect loop fails, the connections opened
\* before it are closed before the error propagates.
C4_ConnectFailureReleases ==
    (pc = "exit" /\ exc = "ConnectError" /\ Len(conns) < args.concurrency) =>
        AllClosed

\* C5: when the setup phase fails (the administrative connect or the setup
\* statement raises), the worker connections are closed before the error
\* propagates.
C5_SetupFailureReleases ==
    (/\ pc = "exit"
     /\ \/ exc = "SetupError"
        \/ exc = "ConnectError" /\ Len(conns) = args.concurrency) =>
        AllClosed

\* The jobs that are configuration errors.
ConfigurationError ==
    \/ querydata.setup /\ ~querydata.teardown
    \/ is_copy /\ copy_executor = "None"
    \/ is_copy /\ ~copy_match(querydata.query)

\* C6: a job that is a configuration error is rejected with no worker
\* connection opened, no administrative connection opened and no setup
\* statement executed.
C6_RejectedBeforeConnect ==
    ConfigurationError =>
        /\ conns = <<>>
        /\ admin_conn = "unbound"
        /\ admin_log = <<>>
        /\ pc \in {"main", "runner", "exit"}
        /\ pc = "exit" => exc # "none"

\* A job with setup and no teardown was rejected.
C6_Witness ==
    /\ pc = "exit"
    /\ querydata.setup /\ ~querydata.teardown
    /\ exc = "SystemExit"
    /\ conns = <<>>

\* C7: in the warmup pass no worker begins a sample once warmup_time has
\* elapsed since the start of the pass.
C7_WarmupDeadline ==
    phase = "warmup" =>
        \A k \in 1..Len(workers) :
            workers[k].pc = "await" =>
                workers[k].req_start - start < args.warmup_time

\* The buckets a histogram has counted a sample in.
Buckets(f) == BagToSet(f.latency_stats)

\* C8 as stated: no sample is counted in a bucket past timeoutSeconds * 100 - 1.
C8_IndexBelowTimeoutTimes100 ==
    \A k \in 1..Len(workers) :
        \A b \in Buckets(workers[k]) : b <= args.timeout * 100 - 1

\* C8, amended: the histogram has timeoutSeconds * 1000 * 100 buckets, and
\* no sample is counted in a bucket past timeoutSeconds * 1000 * 100 - 1,
\* in a worker's histogram or in a result's.
C8_IndexBelowLength ==
    /\ \A k \in 1..Len(workers) :
          \A b \in Buckets(workers[k]) :
              0 <= b /\ b <= args.timeout * 1000 * 100 - 1
    /\ \A k \in 1..Len(results) :
          \A b \in Buckets(results[k]) :
              0 <= b /\ b <= args.timeout * 1000 * 100 - 1

\* A worker counted a one-second sample: bucket 100000.
C8_Witness ==
    \E k \in 1..Len(workers) : 100000 \in Buckets(workers[k])

\* C9: a sample at or past the length of the histogram is surfaced as a
\* histogram overflow (clamped with a warning at least): it does not end
\* the worker, and the run, with an unrelated error.
C9_OverflowSurfaced ==
    /\ exc # "IndexError"
    /\ \A k \in 1..Len(workers) : workers[k].exc # "IndexError"

\* C10 as stated: the row count of the copy post-check is fetched with
\* every worker connection closed and the teardown statement already run.
C10_PostCheckAfterTeardown ==
    "fetchval" \in Range(admin_log) =>
        AllClosed /\ Before("teardown", "fetchval")

\* C10, amended: the row count of the copy post-check is fetched with every
\* worker connection closed, and the teardown statement is run after it,
\* never before it.
C10_PostCheckBetweenCloseAndTeardown ==
    "fetchval" \in Range(admin_log) =>
        AllClosed /\ ~Before("teardown", "fetchval")

\* A COPY job ran setup, the post-check and then the teardown.
C10_Witness ==
    /\ admin_log = <<"setup", "fetchval", "teardown">>
    /\ AllClosed
    /\ Len(conns) = 2


\* C11: a job with a teardown statement and no setup statement never
\* attempts the teardown, and completes with a report once its data is
\* assembled; the teardown is issued only in a run that issued the setup.
C11_TeardownOnlyAfterSetup ==
    /\ "teardown" \in Range(admin_log) => "setup" \in Range(admin_log)
    /\ (/\ querydata.teardown /\ ~querydata.setup
        /\ data # <<>>
        /\ pc = "exit") => (exc = "none" /\ Len(stdout) = 1)

\* The error of the copy post-check.
IncompleteCopy == "RuntimeError: COPY did not insert the expected number of rows"

\* The row count was fetched and is short of count * queries.
ShortCopy ==
    /\ rowcount >= 0
    /\ rowcount < querydata.count * merge(results).queries

\* C12: when the row count fetched for a COPY job is below count times the
\* queries of all workers of the measured pass, the incomplete-copy error
\* is raised, no report is assembled or printed, and the teardown is still
\* issued (the error that leaves runner is the incomplete-copy error,
\* unless the teardown raises in its turn).
C12_ShortCopyFails ==
    ShortCopy =>
        /\ pc \in {"teardown", "exit"}
        /\ data = <<>> /\ stdout = <<>>
        /\ pc = "teardown" => exc = IncompleteCopy
        /\ pc = "exit" =>
              /\ exc \in {IncompleteCopy, "TeardownError"}
              /\ Count(admin_log, "teardown") = 1

\* A short row count was fetched after at least one query, and runner was
\* left with the incomplete-copy error and the teardown issued.
C12_Witness ==
    /\ ShortCopy
    /\ merge(results).queries >= 1
    /\ rowcount >= merge(results).queries
    /\ pc = "exit"
    /\ exc = IncompleteCopy
    /\ Count(admin_log, "teardown") = 1

\* C13: a report is printed at most once, only as the last step of a run
\* in which nothing failed, and a run in which nothing failed prints it.
C13_ReportIffSuccess ==
    /\ Len(stdout) <= 1
    /\ stdout # <<>> => (pc = "exit" /\ exc = "none" /\ stdout[1] = data)
    /\ pc = "exit" => (Len(stdout) = 1 <=> exc = "none")

\* A run with setup and teardown printed its report.
C13_Witness ==
    /\ pc = "exit"
    /\ Len(stdout) = 1
    /\ admin_log = <<"setup", "teardown">>

\* C14: the buckets of a worker's histogram add up to its queries counter,
\* in the worker's frame at every moment and in the result it returns.
C14_BucketSumIsQueries ==
    /\ \A k \in 1..Len(workers) :
          BagCardinality(workers[k].latency_stats) = workers[k].queries
    /\ \A k \in 1..Len(results) :
          BagCardinality(results[k].latency_stats) = results[k].queries

\* A worker left the loop after two samples.
C14_Witness ==
    \E k \in 1..Len(workers) :
        /\ workers[k].pc = "returned"
        /\ workers[k].queries = 2
        /\ BagCardinality(workers[k].latency_stats) = 2


\* The results merged group by group: the results up to each position of
\* cuts, and up to the last one, are merged, and then those merges are.
RECURSIVE group_merges(_, _, _, _, _)
group_merges(res, cuts, k, group, done) ==
    IF k > Len(res) THEN done
    ELSE IF k \in cuts \/ k = Len(res)
    THEN group_merges(res, cuts, k + 1, <<>>,
                      Append(done, merge(Append(group, res[k]))))
    ELSE group_merges(res, cuts, k + 1, Append(group, res[k]), done)

merge_grouped(res, cuts) == merge(group_merges(res, cuts, 1, <<>>, <<>>))

Permuted(res, p) == [k \in 1..Len(res) |-> res[p[k]]]

RECURSIVE Sum(_, _)
Sum(f, n) == IF n = 0 THEN 0 ELSE f[n] + Sum(f, n - 1)

\* data is the merge of results: the sums of queries and of rows, the
\* bucket by bucket sum of the histograms, the least min_latency and the
\* greatest max_latency, of one result per worker.
DataIsMergeOfResults ==
    data # <<>> =>
        LET n == Len(results) IN
        /\ n = args.concurrency
        /\ phase = "measured"
        /\ data.queries = Sum([k \in 1..n |-> results[k].queries], n)
        /\ data.rows = Sum([k \in 1..n |-> results[k].rows], n)
        /\ \A b \in BagToSet(data.latency_stats)
                      \cup UNION {Buckets(results[k]) : k \in 1..n} :
              CopiesIn(b, data.latency_stats) =
                  Sum([k \in 1..n |-> CopiesIn(b, results[k].latency_stats)], n)
        /\ \A k \in 1..n : /\ data.min_latency <= results[k].min_latency
                           /\ data.max_latency >= results[k].max_latency
        /\ \E k \in 1..n : data.min_latency = results[k].min_latency
        /\ \E k \in 1..n : data.max_latency = results[k].max_latency

\* results is bound once, to the results of the workers of the measured
\* pass, one per worker, in some order.
ResultsAreMeasuredWorkers ==
    results' # results =>
        /\ results = <<>>
        /\ phase = "measured"
        /\ Len(workers) = args.concurrency
        /\ \E p \in Perms(Len(workers)) :
              results' = [k \in 1..Len(workers) |-> result_of(workers[p[k]])]

\* C16: the report is the merge of exactly the results of the measured
\* pass, one per worker, the warmup pass contributing nothing: queries and
\* rows are the sums over the workers, the histogram the bucket by bucket
\* sum, min_latency the least of the workers' and max_latency the greatest.
C16_ReportIsMergeOfMeasured ==
    []DataIsMergeOfResults /\ [][ResultsAreMeasuredWorkers]_vars

\* A COPY job with a warmup pass assembled its data from two workers whose
\* results differ.
C16_Witness ==
    /\ data # <<>>
    /\ is_copy
    /\ args.warmup_time = 1
    /\ Len(results) = 2
    /\ results[1].min_latency # results[2].min_latency
    /\ data.rows = 2 * data.queries


\* C17: worker k uses connection k of conns and no other, so no two
\* workers of a phase use the same connection, and none uses the
\* administrative connection, which is no element of conns.
C17_OneConnectionPerWorker ==
    \A k \in 1..Len(workers) :
        /\ workers[k].conn = k
        /\ workers[k].conn \in 1..Len(conns)
        /\ \A j \in 1..Len(workers) :
              j # k => workers[j].conn # workers[k].conn

\* Two workers have requests in flight at the same time.
C17_Witness ==
    /\ Len(workers) = 2
    /\ workers[1].pc = "await" /\ workers[2].pc = "await"
    /\ workers[1].conn # workers[2].conn

\* The duration of the phase in progress.
PhaseDuration ==
    IF phase = "warmup" THEN args.warmup_time ELSE args.duration

\* C18: a worker begins no sample once the duration of its phase has
\* elapsed since the start of the phase, and every worker has left its loop
\* when the run ends.
C18_WorkersStopAtDeadline ==
    /\ \A k \in 1..Len(workers) :
          workers[k].pc = "await" =>
              workers[k].req_start - start < PhaseDuration
    /\ pc = "exit" => \A k \in 1..Len(workers) : ~Live(workers[k])

\* C19: no worker has a request in flight on a connection that runner has
\* closed.
C19_NoRequestOnClosedConnection ==
    \A k \in 1..Len(workers) :
        workers[k].pc = "await" => conns[workers[k].conn] = "open"

\* C20: a statement is issued on the administrative connection only once
\* it is open, and a COPY job whose measured pass completed and whose
\* connections were closed fetches its row count, setup or no setup.
C20_AdminConnectionOpenWhenUsed ==
    /\ admin_log # <<>> => admin_conn = "open"
    /\ (/\ is_copy
        /\ pc = "teardown"
        /\ results # <<>>
        /\ exc # "CloseError") => "fetchval" \in Range(admin_log)

====
